---- MODULE Spec2Model ----
(***************************************************************************)
(* Model of the event queue of the order book (src/program/src/state.rs):  *)
(* the event codec, the order-id generator, the circular event buffer and  *)
(* the register, over a byte-exact backing buffer.                         *)
(*                                                                         *)
(* Unsigned integers are kept width-exact, in one of two forms.  seq_num,  *)
(* prices, order ids and the numbers inside events are little-endian       *)
(* bytes, the form to_le_bytes, from_le_bytes and Borsh use.  head, count, *)
(* event_size, register_size and the lengths and offsets computed from     *)
(* them are limbs base 2^24, least significant first.  usize is 64 bits    *)
(* wide.  Positions in the buffer, which are at most its length, are       *)
(* naturals.                                                               *)
(***************************************************************************)
EXTENDS Integers, Sequences, FiniteSets, TLC

\* size_of::<EventQueueHeader>(): four u64, one u32, one one-byte tag,
\* rounded up to the 8-byte alignment.
EVENT_QUEUE_HEADER_LEN == 40

\* Bound of the model: how many times seq_num is advanced in one run.
MaxSeq == 3

\* Bound of the model: the largest argument given to pop_n.
MaxPopN == 2

(***************************************************************************)
(* Fixed-width unsigned integers as little-endian bytes: seq_num, prices,  *)
(* order ids and the numbers inside events.                                *)
(***************************************************************************)

\* The bytes of the u64 and of the u128 whose value is the natural n.
U64(n) ==
    <<n % 256, (n \div 256) % 256, (n \div 65536) % 256, n \div 16777216, 0, 0, 0, 0>>

U128(n) == U64(n) \o <<0, 0, 0, 0, 0, 0, 0, 0>>

\* u64::MAX
U64_MAX == <<255, 255, 255, 255, 255, 255, 255, 255>>

\* 2^63 - 1
I64_MAX == <<255, 255, 255, 255, 255, 255, 255, 127>>

\* u64::MAX - 68
U64_MAX_68 == <<187, 255, 255, 255, 255, 255, 255, 255>>

Zero64 == U64(0)

\* Bitwise complement (the ! operator) of a byte sequence.
Not64(x) == [i \in 1..Len(x) |-> 255 - x[i]]

\* x + 1 modulo 2^(8 * Len(x)).
RECURSIVE IncFrom(_, _)
IncFrom(x, i) ==
    IF i > Len(x) THEN x
    ELSE IF x[i] = 255 THEN IncFrom([x EXCEPT ![i] = 0], i + 1)
    ELSE [x EXCEPT ![i] = x[i] + 1]

WrappingInc(x) == IncFrom(x, 1)

\* a < b as unsigned integers of the same width.
RECURSIVE LtFrom(_, _, _)
LtFrom(a, b, i) ==
    IF i = 0 THEN FALSE
    ELSE IF a[i] # b[i] THEN a[i] < b[i]
    ELSE LtFrom(a, b, i - 1)

LtU(a, b) == LtFrom(a, b, Len(a))

(***************************************************************************)
(* Fixed-width unsigned integers as limbs: head, count, event_size,        *)
(* register_size and the u64 and usize values computed from them.  A u64   *)
(* (or usize) is <<l0, l1, l2>> and holds l0 + 2^24 * l1 + 2^48 * l2, with *)
(* l0, l1 below 2^24 and l2 below 2^16; a u32 is <<l0, l1>>, l1 below 2^8. *)
(***************************************************************************)

\* 2^24
Limb == 16777216

\* The u64 and the u32 whose value is the natural n.
Word(n) == <<n % Limb, n \div Limb, 0>>

Word32(n) == <<n % Limb, n \div Limb>>

Zero == Word(0)

One == Word(1)

\* u64::MAX
WORD_MAX == <<Limb - 1, Limb - 1, 65535>>

\* EVENT_QUEUE_HEADER_LEN as a usize.
HEADER_LEN == Word(EVENT_QUEUE_HEADER_LEN)

\* `as u64` and `as usize` of a u32: the same value.
as_u64(x) == <<x[1], x[2], 0>>

\* to_le_bytes and from_le_bytes of a u64 and of a u32.
to_le_bytes(x) ==
    <<x[1] % 256, (x[1] \div 256) % 256, x[1] \div 65536,
      x[2] % 256, (x[2] \div 256) % 256, x[2] \div 65536,
      x[3] % 256, x[3] \div 256>>

from_le_bytes(b) ==
    <<b[1] + 256 * b[2] + 65536 * b[3], b[4] + 256 * b[5] + 65536 * b[6], b[7] + 256 * b[8]>>

to_le_bytes32(x) == <<x[1] % 256, (x[1] \div 256) % 256, x[1] \div 65536, x[2]>>

from_le_bytes32(b) == <<b[1] + 256 * b[2] + 65536 * b[3], b[4]>>

\* The natural the u64 x holds, x below 2^31 (the positions in a buffer
\* are).
ToNat(x) == CASE x[3] = 0 /\ x[2] < 128 -> x[1] + Limb * x[2]

\* a < b and a <= b over u64.
Lt(a, b) ==
    IF a[3] # b[3] THEN a[3] < b[3]
    ELSE IF a[2] # b[2] THEN a[2] < b[2]
    ELSE a[1] < b[1]

Le(a, b) == ~Lt(b, a)

\* a + b over u64: the sum modulo 2^64, and whether it passed u64::MAX (with
\* overflow checks the addition then panics, without them it wraps).
AddU(a, b) ==
    LET s0 == a[1] + b[1]
        s1 == a[2] + b[2] + s0 \div Limb
        s2 == a[3] + b[3] + s1 \div Limb
    IN  [value |-> <<s0 % Limb, s1 % Limb, s2 % 65536>>, overflow |-> s2 >= 65536]

\* a - b over u64: the difference modulo 2^64, and whether it went below 0
\* (each d is one limb more than the difference at its limb).
SubU(a, b) ==
    LET d0 == Limb + a[1] - b[1]
        d1 == Limb - 1 + a[2] - b[2] + d0 \div Limb
        d2 == 65535 + a[3] - b[3] + d1 \div Limb
    IN  [value |-> <<d0 % Limb, d1 % Limb, d2 % 65536>>, overflow |-> d2 < 65536]

\* Column k of the long multiplication of the bytes a and b: the sum of the
\* products of the bytes whose positions add up to k + 1.
RECURSIVE Column(_, _, _, _)
Column(a, b, k, i) ==
    IF i > 8 THEN 0
    ELSE (IF k + 1 - i \in 1..8 THEN a[i] * b[k + 1 - i] ELSE 0) + Column(a, b, k, i + 1)

\* The carry into byte k of a * b.
RECURSIVE MulCarry(_, _, _)
MulCarry(a, b, k) ==
    IF k = 1 THEN 0 ELSE (Column(a, b, k - 1, 1) + MulCarry(a, b, k - 1)) \div 256

\* The 16 bytes of the product of the 8-byte a and b.
Product(a, b) == [k \in 1..16 |-> (Column(a, b, k, 1) + MulCarry(a, b, k)) % 256]

\* The product modulo 2^64 of the bytes p of a product, and whether the
\* product passed u64::MAX.
Wrapped(p) == [value |-> from_le_bytes(SubSeq(p, 1, 8)), overflow |-> \E k \in 9..16 : p[k] # 0]

\* a * b over u64: the product modulo 2^64, and whether it passed u64::MAX.
\* Factors of one limb whose product is below 2^31 are multiplied as
\* naturals, others byte by byte.
MulU(a, b) ==
    IF a[2] = 0 /\ a[3] = 0 /\ b[2] = 0 /\ b[3] = 0 /\ a[1] < 32768 /\ b[1] < 65536
    THEN [value |-> Word(a[1] * b[1]), overflow |-> FALSE]
    ELSE Wrapped(Product(to_le_bytes(a), to_le_bytes(b)))

\* The limb (1..3) bit i of a u64 is in, bit 0 being the least significant.
LimbOf(i) == (i \div 24) + 1

\* Bit i of a.
Bit(a, i) == (a[LimbOf(i)] \div (2 ^ (i % 24))) % 2

\* 2 * x + bit modulo 2^64.
Shl1(x, bit) ==
    LET t0 == 2 * x[1] + bit
        t1 == 2 * x[2] + t0 \div Limb
        t2 == 2 * x[3] + t1 \div Limb
    IN  <<t0 % Limb, t1 % Limb, t2 % 65536>>

\* Long division of a by b (b not 0), bit by bit from the most significant:
\* quo and rem are the quotient and the remainder of the bits of a above
\* bit i; the step takes in bit i.  b goes into 2 * rem + bit when that is
\* 2^64 or more (the top bit of rem is set) or when it is not above it.
RECURSIVE LongDiv(_, _, _, _, _)
LongDiv(a, b, i, quo, rem) ==
    IF i < 0 THEN [quo |-> quo, rem |-> rem]
    ELSE LET shifted == Shl1(rem, Bit(a, i))
         IN  IF rem[3] >= 32768 \/ Le(b, shifted)
             THEN LongDiv(a, b, i - 1,
                          [quo EXCEPT ![LimbOf(i)] = quo[LimbOf(i)] + 2 ^ (i % 24)],
                          SubU(shifted, b).value)
             ELSE LongDiv(a, b, i - 1, quo, shifted)

\* a / b and a % b over u64, b not 0.  Operands of one limb are divided as
\* naturals.
DivRem(a, b) ==
    IF a[2] = 0 /\ a[3] = 0 /\ b[2] = 0 /\ b[3] = 0
    THEN [quo |-> <<a[1] \div b[1], 0, 0>>, rem |-> <<a[1] % b[1], 0, 0>>]
    ELSE LongDiv(a, b, 63, Zero, Zero)

DivU(a, b) == DivRem(a, b).quo

RemU(a, b) == DivRem(a, b).rem

\* std::cmp::min over u64.
MinU(a, b) == IF Lt(b, a) THEN b ELSE a

\* Rust's slice[a..b] over a buffer kept as a 1-based sequence.
Slice(buf, a, b) == SubSeq(buf, a + 1, b)

Min(a, b) == IF a <= b THEN a ELSE b

(***************************************************************************)
(* Side and the event codec.                                               *)
(***************************************************************************)
Side == {"Bid", "Ask"}

\* ToPrimitive on the #[repr(u8)] enum.
to_u8(side) == IF side = "Bid" THEN 0 ELSE 1

\* FromPrimitive: None for any byte above 1.
from_u8(b) == IF b = 0 THEN "Bid" ELSE IF b = 1 THEN "Ask" ELSE "None"

\* The bytes Event::serialize hands to the writer, in order.
serialize(event) ==
    IF event.kind = "Fill"
    THEN <<to_u8(event.taker_side)>> \o event.maker_order_id \o event.quote_size
           \o event.asset_size \o event.maker_callback_info
           \o event.taker_callback_info
    ELSE <<to_u8(event.side)>> \o event.order_id \o event.asset_size
           \o event.callback_info

\* write_all into a &mut [u8] of length room: as many bytes as fit are
\* copied, and the write fails when not all of them fit.
write_all(room, bytes) ==
    [ok |-> Len(bytes) <= room, written |-> SubSeq(bytes, 1, Min(room, Len(bytes)))]

\* Event::deserialize(buf, callback_info_len): the decoded event, or a panic
\* (index out of range, unwrap of None, unimplemented!, unreachable!).
deserialize(buf, cbl) ==
    IF Len(buf) < 1 THEN [tag |-> "panic", why |-> "index"]
    ELSE IF buf[1] = 0 THEN
        IF Len(buf) < 2 THEN [tag |-> "panic", why |-> "index"]
        ELSE IF from_u8(buf[2]) = "None" THEN [tag |-> "panic", why |-> "unwrap"]
        ELSE IF Len(buf) < 34 + 2 * cbl THEN [tag |-> "panic", why |-> "index"]
        ELSE [tag |-> "ok",
              event |-> [kind |-> "Fill",
                         taker_side |-> from_u8(buf[2]),
                         maker_order_id |-> Slice(buf, 2, 18),
                         quote_size |-> Slice(buf, 18, 26),
                         asset_size |-> Slice(buf, 26, 34),
                         maker_callback_info |-> Slice(buf, 34, 34 + cbl),
                         taker_callback_info |-> Slice(buf, 34 + cbl, 34 + 2 * cbl)]]
    ELSE IF buf[1] = 1 THEN [tag |-> "panic", why |-> "unimplemented"]
    ELSE [tag |-> "panic", why |-> "unreachable"]

(***************************************************************************)
(* The event queue: a header kept in memory, the whole account data as the *)
(* backing buffer, and the callback-info length.                           *)
(***************************************************************************)
VARIABLES
    header,             \* EventQueueHeader: tag, head, count, event_size, seq_num,
                        \*   register_size
    buffer,             \* the whole account data, one byte per element
    callback_info_len,  \* EventQueue.callback_info_len
    aborted,            \* a call panicked: the enclosing operation is over
    last,               \* the last call: its name, argument and returned value
    prev,               \* header, buffer and live as they were when the last call began
    live,               \* history: the accepted events not yet popped, oldest first,
                        \*   each with the offset push_back wrote it at
    phase,              \* history: "fill" while only pushes followed an empty queue,
                        \*   "drain" while only pop_front calls followed those, else "off"
    minted,             \* history: the order ids returned so far, oldest first
    ticks,              \* history: how many times seq_num was advanced
    wrapped,            \* history: seq_num has passed u64::MAX
    run                 \* the run (one of Runs) this behaviour belongs to

vars == <<header, buffer, callback_info_len, aborted, last, prev, live, phase, minted, ticks,
          wrapped, run>>

\* The queue as one value, for the operators below.
Queue == [header |-> header, buffer |-> buffer, callback_info_len |-> callback_info_len]

\* The queue as it was when the last call began.
Before ==
    [header |-> prev.header, buffer |-> prev.buffer, callback_info_len |-> callback_info_len]

\* buffer with bytes written from 0-based position at.
WriteAt(buf, at, bytes) ==
    SubSeq(buf, 1, at) \o bytes \o SubSeq(buf, at + Len(bytes) + 1, Len(buf))

\* get_buf_len(): len() - EVENT_QUEUE_HEADER_LEN - register_size in usize.
\* When the account is shorter than the header and the register window a
\* subtraction overflows: with overflow checks it panics, without them it
\* wraps.
get_buf_len(q, checked) ==
    LET len == SubU(Word(Len(q.buffer)), HEADER_LEN)
        left == SubU(len.value, as_u64(q.header.register_size))
    IN  IF checked /\ (len.overflow \/ left.overflow)
        THEN [tag |-> "panic", why |-> "overflow"]
        ELSE [tag |-> "Ok", value |-> left.value]

\* The length get_buf_len() returns when it returns.
buf_len(q) == get_buf_len(q, FALSE).value

\* full(): get_buf_len() is evaluated first and may panic; the division
\* panics when event_size is 0 (in every build); otherwise whether count
\* equals the number of slots.
full(q, checked) ==
    LET len == get_buf_len(q, checked)
    IN  IF len.tag = "panic" THEN len
        ELSE IF q.header.event_size = Zero THEN [tag |-> "panic", why |-> "div"]
        ELSE [tag |-> "Ok", value |-> q.header.count = DivU(len.value, q.header.event_size)]

(***************************************************************************)
(* Order ids.                                                              *)
(***************************************************************************)

\* self.header.seq_num += 1: with overflow checks the addition panics at
\* u64::MAX, without them it wraps.
seq_num_overflows(q, checked) == checked /\ q.header.seq_num = U64_MAX

\* Mutant: seq_num is not advanced.
same_seq_num(seq_num) == seq_num

\* Mutant: seq_num is advanced twice.
twice_next_seq_num(seq_num) == WrappingInc(WrappingInc(seq_num))

next_seq_num(seq_num) == WrappingInc(seq_num)

\* Mutant: the sequence number of a bid is not complemented.
lower_uncomplemented(side, seq_num) == seq_num

\* The low 64 bits of an order id.
lower(side, seq_num) == IF side = "Bid" THEN Not64(seq_num) ELSE seq_num

\* upper | (lower as u128), upper = (limit_price as u128) << 64.
order_id(limit_price, side, seq_num) == lower(side, seq_num) \o limit_price

\* gen_order_id with gen_seq_num inlined: the id and the queue after it.
gen_order_id(q, limit_price, side, checked) ==
    IF seq_num_overflows(q, checked)
    THEN [q |-> q, ret |-> [tag |-> "panic", why |-> "overflow"]]
    ELSE [q |-> [q EXCEPT !.header.seq_num = next_seq_num(q.header.seq_num)],
          ret |-> [tag |-> "id", id |-> order_id(limit_price, side, q.header.seq_num)]]

(***************************************************************************)
(* The circular event buffer.                                              *)
(***************************************************************************)

\* Mutant: a rejected push still advances seq_num.
push_back_rejected_counted(q, event) ==
    [q |-> [q EXCEPT !.header.seq_num = WrappingInc(q.header.seq_num)],
     ret |-> [tag |-> "Err", event |-> event]]

\* A full queue hands the event back and changes nothing.
push_back_rejected(q, event) == [q |-> q, ret |-> [tag |-> "Err", event |-> event]]

\* The offset push_back writes at: `as` binds tighter than %, and % tighter
\* than +, so register_size is inside the modulus.  The sum and the product
\* are u64 and the outer sum usize: each panics with overflow checks, and
\* wraps without them, when it passes the maximum; % panics on a length of 0.
push_offset(q, checked) ==
    LET sum == AddU(as_u64(q.header.register_size), q.header.head)
        product == MulU(q.header.count, q.header.event_size)
        total == AddU(sum.value, product.value)
        len == get_buf_len(q, checked)
        offset == AddU(HEADER_LEN, RemU(total.value, len.value))
    IN  IF checked /\ (sum.overflow \/ product.overflow \/ total.overflow)
        THEN [tag |-> "panic", why |-> "overflow"]
        ELSE IF len.tag = "panic" THEN len
        ELSE IF len.value = Zero THEN [tag |-> "panic", why |-> "rem"]
        ELSE IF checked /\ offset.overflow THEN [tag |-> "panic", why |-> "overflow"]
        ELSE [tag |-> "Ok", value |-> offset.value]

\* buffer[offset..offset + event_size]: the sum panics or wraps as above, and
\* the range must be in order and end inside the buffer.
event_window(q, offset, checked) ==
    LET end == AddU(offset, q.header.event_size)
    IN  IF checked /\ end.overflow THEN [tag |-> "panic", why |-> "overflow"]
        ELSE IF Lt(end.value, offset) \/ Lt(Word(Len(q.buffer)), end.value)
        THEN [tag |-> "panic", why |-> "index"]
        ELSE [tag |-> "Ok", start |-> ToNat(offset), end |-> ToNat(end.value)]

\* The rest of push_back once the window of the slot is sliced: the event is
\* serialized into it, then count and seq_num are advanced.
push_back_into(q, event, window, checked) ==
    LET w == write_all(window.end - window.start, serialize(event))
        written == [q EXCEPT !.buffer = WriteAt(q.buffer, window.start, w.written)]
        counted == [written EXCEPT !.header.count = AddU(q.header.count, One).value]
    IN  IF window.tag = "panic" THEN [q |-> q, ret |-> window]
        ELSE IF ~w.ok THEN [q |-> written, ret |-> [tag |-> "panic", why |-> "unwrap"]]
        ELSE IF checked /\ q.header.count = WORD_MAX
        THEN [q |-> written, ret |-> [tag |-> "panic", why |-> "overflow"]]
        ELSE IF seq_num_overflows(q, checked)
        THEN [q |-> counted, ret |-> [tag |-> "panic", why |-> "overflow"]]
        ELSE [q |-> [counted EXCEPT !.header.seq_num = next_seq_num(q.header.seq_num)],
              ret |-> [tag |-> "Ok"]]

push_back(q, event, checked) ==
    LET is_full == full(q, checked)
        offset == push_offset(q, checked)
    IN  IF is_full.tag = "panic" THEN [q |-> q, ret |-> is_full]
        ELSE IF is_full.value THEN push_back_rejected(q, event)
        ELSE IF offset.tag = "panic" THEN [q |-> q, ret |-> offset]
        ELSE push_back_into(q, event, event_window(q, offset.value, checked), checked)

\* The offset peek_front and pop_front read at: a u64 sum, then a usize sum.
front_offset(q, checked) ==
    LET sum == AddU(as_u64(q.header.register_size), q.header.head)
        offset == AddU(HEADER_LEN, sum.value)
    IN  IF checked /\ (sum.overflow \/ offset.overflow)
        THEN [tag |-> "panic", why |-> "overflow"]
        ELSE [tag |-> "Ok", value |-> offset.value]

\* The read peek_front and pop_front share: slice the front window, decode it.
read_front(q, checked) ==
    LET offset == front_offset(q, checked)
        window == event_window(q, offset.value, checked)
    IN  IF offset.tag = "panic" THEN offset
        ELSE IF window.tag = "panic" THEN window
        ELSE deserialize(Slice(q.buffer, window.start, window.end), q.callback_info_len)

peek_front(q, checked) ==
    IF q.header.count = Zero THEN [tag |-> "None"]
    ELSE LET r == read_front(q, checked)
         IN  IF r.tag = "panic" THEN r ELSE [tag |-> "Some", event |-> r.event]

\* Mutant: head is advanced before the queue is found empty.
pop_front_empty_advanced(q) ==
    [q |-> [q EXCEPT !.header.head = RemU(AddU(q.header.head, One).value, buf_len(q))],
     ret |-> [tag |-> "Err", error |-> "EventQueueEmpty"]]

\* An empty queue answers EventQueueEmpty and changes nothing.
pop_front_empty(q) == [q |-> q, ret |-> [tag |-> "Err", error |-> "EventQueueEmpty"]]

\* Mutant: head is advanced without the modulus.
advance_head_unwrapped(q, n, checked) ==
    [tag |-> "Ok", value |-> AddU(q.header.head, n).value]

\* (head + n) % get_buf_len(): head after n entries were popped.  The sum
\* panics or wraps when it passes u64::MAX, get_buf_len() may panic, and %
\* panics on a length of 0.
advance_head(q, n, checked) ==
    LET sum == AddU(q.header.head, n)
        len == get_buf_len(q, checked)
    IN  IF checked /\ sum.overflow THEN [tag |-> "panic", why |-> "overflow"]
        ELSE IF len.tag = "panic" THEN len
        ELSE IF len.value = Zero THEN [tag |-> "panic", why |-> "rem"]
        ELSE [tag |-> "Ok", value |-> RemU(sum.value, len.value)]

pop_front(q, checked) ==
    LET r == read_front(q, checked)
        counted == [q EXCEPT !.header.count = SubU(q.header.count, One).value]
        head == advance_head(q, One, checked)
    IN  IF q.header.count = Zero THEN pop_front_empty(q)
        ELSE IF r.tag = "panic" THEN [q |-> q, ret |-> r]
        ELSE IF head.tag = "panic" THEN [q |-> counted, ret |-> head]
        ELSE [q |-> [counted EXCEPT !.header.head = head.value],
              ret |-> [tag |-> "Ok", event |-> r.event]]

\* Mutant: the number of entries to pop is not capped at count.
uncapped_number_of_entries_to_pop(q, n) == n

capped_number_of_entries_to_pop(q, n) == MinU(q.header.count, n)

pop_n(q, n, checked) ==
    LET capped == capped_number_of_entries_to_pop(q, n)
        left == SubU(q.header.count, capped)
        counted == [q EXCEPT !.header.count = left.value]
        head == advance_head(q, capped, checked)
    IN  IF checked /\ left.overflow
        THEN [q |-> q, ret |-> [tag |-> "panic", why |-> "overflow"]]
        ELSE IF head.tag = "panic" THEN [q |-> counted, ret |-> head]
        ELSE [q |-> [counted EXCEPT !.header.head = head.value], ret |-> [tag |-> "Ok"]]

(***************************************************************************)
(* The register: register_size bytes right after the header.               *)
(***************************************************************************)

\* Borsh: the variant index, then the payload (a u64 here: 8 bytes).
register_bytes(reg) ==
    IF reg.tag = "Uninitialized" THEN <<0>> ELSE <<1>> \o reg.value

\* buffer[EVENT_QUEUE_HEADER_LEN..EVENT_QUEUE_HEADER_LEN + register_size]:
\* the range must end inside the buffer.
register_window(q) ==
    LET end == AddU(HEADER_LEN, as_u64(q.header.register_size)).value
    IN  IF Lt(Word(Len(q.buffer)), end) THEN [tag |-> "panic", why |-> "index"]
        ELSE [tag |-> "Ok", start |-> EVENT_QUEUE_HEADER_LEN, end |-> ToNat(end)]

\* Mutant: the register value is written right after the register window.
store_register_after_window(q, reg) ==
    [q |-> [q EXCEPT !.buffer =
                 WriteAt(q.buffer, EVENT_QUEUE_HEADER_LEN + ToNat(as_u64(q.header.register_size)),
                         register_bytes(reg))],
     ret |-> [tag |-> "Ok"]]

\* Serialize a register value into the register window.
store_register(q, reg) ==
    LET window == register_window(q)
        w == write_all(window.end - window.start, register_bytes(reg))
        written == [q EXCEPT !.buffer = WriteAt(q.buffer, window.start, w.written)]
    IN  IF window.tag = "panic" THEN [q |-> q, ret |-> window]
        ELSE IF ~w.ok THEN [q |-> written, ret |-> [tag |-> "panic", why |-> "unwrap"]]
        ELSE [q |-> written, ret |-> [tag |-> "Ok"]]

write_to_register(q, object) == store_register(q, [tag |-> "Initialized", value |-> object])

clear_register(q) == store_register(q, [tag |-> "Uninitialized"])

\* Register::<u64>::deserialize over the register window.
read_register(q) ==
    LET window == register_window(q)
        register == Slice(q.buffer, window.start, window.end)
    IN  IF window.tag = "panic" THEN window
        ELSE IF Len(register) < 1 THEN [tag |-> "Err", error |-> "IoError"]
        ELSE IF register[1] = 0 THEN [tag |-> "Ok", register |-> [tag |-> "Uninitialized"]]
        ELSE IF register[1] = 1 THEN
            IF Len(register) < 9 THEN [tag |-> "Err", error |-> "IoError"]
            ELSE [tag |-> "Ok",
                  register |-> [tag |-> "Initialized", value |-> Slice(register, 1, 9)]]
        ELSE [tag |-> "Err", error |-> "IoError"]

(***************************************************************************)
(* Inputs of the model.                                                    *)
(***************************************************************************)

CallbackInfo(cbl, b) == [i \in 1..cbl |-> b]

Fill(taker_side, maker_order_id, quote_size, asset_size, maker, taker) ==
    [kind |-> "Fill", taker_side |-> taker_side, maker_order_id |-> maker_order_id,
     quote_size |-> quote_size, asset_size |-> asset_size,
     maker_callback_info |-> maker, taker_callback_info |-> taker]

Out(side, oid, asset_size, callback_info) ==
    [kind |-> "Out", side |-> side, order_id |-> oid, asset_size |-> asset_size,
     callback_info |-> callback_info]

\* Events with callback strings of length cbl: the all-zero Fill, a Fill and
\* an Out.
ZeroFill(cbl) ==
    Fill("Bid", U128(0), Zero64, Zero64, CallbackInfo(cbl, 0), CallbackInfo(cbl, 0))

AskFill(cbl) ==
    Fill("Ask", U128(1), U64(2), U64(3), CallbackInfo(cbl, 7), CallbackInfo(cbl, 8))

BidOut(cbl) == Out("Bid", U128(258), U64(4), CallbackInfo(cbl, 9))

\* ORDER_SUMMARY_SIZE of the orderbook module.
ORDER_SUMMARY_SIZE == 41

\* The variants of AccountTag, in the order of their Borsh indices 0..4.
AccountTag == <<"Initialized", "Market", "EventQueue", "Bids", "Asks">>

\* EventQueueHeader::default().
default_header ==
    [tag |-> "EventQueue", head |-> Zero, count |-> Zero, event_size |-> Zero,
     seq_num |-> Zero64, register_size |-> Word32(ORDER_SUMMARY_SIZE + 1)]

\* The bytes the derived BorshSerialize stores for a header: the index of the
\* tag, then the fields in the order of the struct.
header_bytes(h) ==
    <<(CHOOSE i \in 1..Len(AccountTag) : AccountTag[i] = h.tag) - 1>>
        \o to_le_bytes(h.head) \o to_le_bytes(h.count) \o to_le_bytes(h.event_size)
        \o h.seq_num \o to_le_bytes32(h.register_size)

\* The stored bytes of an empty event queue's header.
stored_header(event_size, seq_num, register_size) ==
    header_bytes([tag |-> "EventQueue", head |-> Zero, count |-> Zero,
                  event_size |-> Word(event_size), seq_num |-> seq_num,
                  register_size |-> Word32(register_size)])

\* An EventQueueHeader read from stored bytes by the derived
\* BorshDeserialize: every field as stored, or Err when the tag is not the
\* index of a variant or the bytes end before the last field.
loaded_header(bytes) ==
    IF Len(bytes) < 1 THEN [tag |-> "Err", error |-> "IoError"]
    ELSE IF bytes[1] > 4 THEN [tag |-> "Err", error |-> "IoError"]
    ELSE IF Len(bytes) < 37 THEN [tag |-> "Err", error |-> "IoError"]
    ELSE [tag |-> "Ok",
          header |-> [tag |-> AccountTag[bytes[1] + 1],
                      head |-> from_le_bytes(Slice(bytes, 1, 9)),
                      count |-> from_le_bytes(Slice(bytes, 9, 17)),
                      event_size |-> from_le_bytes(Slice(bytes, 17, 25)),
                      seq_num |-> Slice(bytes, 25, 33),
                      register_size |-> from_le_bytes32(Slice(bytes, 33, 37))]]

\* The runs of the model.  Each is a queue (the header's stored bytes, or
\* none for the default header; the callback-info length; the length of the
\* account data and the byte it holds before the queue is attached to it; the
\* constructor), how many times an event was pushed and popped again before
\* the run is observed (which brings head to the end of the event region),
\* what the caller passes in (the events pushed, the prices of the ids asked
\* for, the values written to the register) and the builds considered: with
\* overflow checks (TRUE) or without.  The two builds differ only where an
\* addition, a subtraction or a multiplication overflows.  Run 3, where
\* seq_num reaches u64::MAX, is made in both, the build chosen at the call;
\* runs 7 and 8 are one short account, whose every call depends on the
\* build, in each; in the other runs no operation overflows, the two builds
\* make the same calls with the same outcomes, and one is followed.
\*   runs 1, 2, 4: queues with two slots, and with one;
\*   run 3: seq_num one short of u64::MAX and head at the end of the region;
\*   run 5: the default header, whose event_size is 0;
\*   run 6: no room for the register, so that new_safe panics;
\*   runs 7, 8: an account shorter than the header and the register window;
\*   run 9: a warm-up whose last push_back panics.
Runs ==
    { [stored |-> stored_header(34, Zero64, 42), default |-> FALSE,
       callback_info_len |-> 0, account_len |-> 150,
       fill |-> 0, ctor |-> "new", cycles |-> 0, builds |-> {TRUE},
       events |-> {ZeroFill(0), AskFill(0), BidOut(0)},
       prices |-> {U64(2)}, objects |-> {U64(5)}],
      [stored |-> stored_header(36, I64_MAX, 9), default |-> FALSE,
       callback_info_len |-> 1, account_len |-> 121,
       fill |-> 255, ctor |-> "new_safe", cycles |-> 0, builds |-> {TRUE},
       events |-> {ZeroFill(1), BidOut(1)},
       prices |-> {U64(2)}, objects |-> {}],
      [stored |-> stored_header(34, U64_MAX_68, 42), default |-> FALSE,
       callback_info_len |-> 0, account_len |-> 150,
       fill |-> 255, ctor |-> "new", cycles |-> 67, builds |-> BOOLEAN,
       events |-> {AskFill(0)},
       prices |-> {U64(2), U64(256)}, objects |-> {}],
      [stored |-> stored_header(34, Zero64, 9), default |-> FALSE,
       callback_info_len |-> 0, account_len |-> 83,
       fill |-> 1, ctor |-> "new", cycles |-> 0, builds |-> {TRUE},
       events |-> {},
       prices |-> {}, objects |-> {U64(5)}],
      [stored |-> <<>>, default |-> TRUE,
       callback_info_len |-> 0, account_len |-> 150,
       fill |-> 0, ctor |-> "new", cycles |-> 0, builds |-> {TRUE},
       events |-> {ZeroFill(0)},
       prices |-> {U64(2)}, objects |-> {}],
      [stored |-> stored_header(34, Zero64, 0), default |-> FALSE,
       callback_info_len |-> 0, account_len |-> 74,
       fill |-> 238, ctor |-> "new_safe", cycles |-> 0, builds |-> {TRUE},
       events |-> {},
       prices |-> {}, objects |-> {}],
      [stored |-> stored_header(34, U64(7), 42), default |-> FALSE,
       callback_info_len |-> 0, account_len |-> 60,
       fill |-> 3, ctor |-> "new", cycles |-> 0, builds |-> {TRUE},
       events |-> {ZeroFill(0)},
       prices |-> {}, objects |-> {}],
      [stored |-> stored_header(34, U64(7), 42), default |-> FALSE,
       callback_info_len |-> 0, account_len |-> 60,
       fill |-> 3, ctor |-> "new", cycles |-> 0, builds |-> {FALSE},
       events |-> {ZeroFill(0)},
       prices |-> {}, objects |-> {}],
      [stored |-> stored_header(36, U64(5), 9), default |-> FALSE,
       callback_info_len |-> 1, account_len |-> 121,
       fill |-> 255, ctor |-> "new_safe", cycles |-> 38, builds |-> {TRUE},
       events |-> {},
       prices |-> {}, objects |-> {}] }

(***************************************************************************)
(* Construction and the calls.                                             *)
(***************************************************************************)

\* EventQueue::new keeps the account data as it is.
new(h, account, cbl) == [header |-> h, buffer |-> account, callback_info_len |-> cbl]

\* EventQueue::new_safe clears the register; it panics, and returns no queue,
\* when clear_register panics.
new_safe(h, account, cbl) == clear_register(new(h, account, cbl))

\* One round on q, pushed being what its push_back(event) gave: the pop_n(1)
\* that follows when the push did not panic.  The queue the round leaves
\* and, when a call of it panicked, that call, what it returned and the
\* queue it began on.
round(q, event, pushed, checked) ==
    LET popped == pop_n(pushed.q, One, checked)
    IN  IF pushed.ret.tag = "panic"
        THEN [q |-> pushed.q, before |-> q, op |-> "push_back", arg |-> event,
              ret |-> pushed.ret]
        ELSE IF popped.ret.tag = "panic"
        THEN [q |-> popped.q, before |-> pushed.q, op |-> "pop_n", arg |-> 1,
              ret |-> popped.ret]
        ELSE [q |-> popped.q, before |-> popped.q, op |-> "none", arg |-> <<>>,
              ret |-> [tag |-> "Ok"]]

\* n rounds of push_back(event) and pop_n(1) on q: the queue they leave and,
\* when a call of a round panicked, that call (the last one made), what it
\* returned and the queue it began on.  The rounds are made in order, the
\* first half and then, when none of it panicked, the rest.
RECURSIVE cycled(_, _, _, _)
cycled(q, event, n, checked) ==
    IF n = 0 THEN [q |-> q, before |-> q, op |-> "none", arg |-> <<>>, ret |-> [tag |-> "Ok"]]
    ELSE IF n = 1 THEN round(q, event, push_back(q, event, checked), checked)
    ELSE LET first == cycled(q, event, n \div 2, checked)
         IN  IF first.op # "none" THEN first
             ELSE cycled(first.q, event, n - n \div 2, checked)

\* The queue a run starts from: the header loaded (or the default one), the
\* queue constructed over the account data, then the rounds of the run made.
\* A constructor that panics leaves no queue to call.
warmed(l, checked) ==
    LET h == IF l.default THEN default_header ELSE loaded_header(l.stored).header
        account == [i \in 1..l.account_len |-> l.fill]
        built == IF l.ctor = "new"
                 THEN [q |-> new(h, account, l.callback_info_len), ret |-> [tag |-> "Ok"]]
                 ELSE new_safe(h, account, l.callback_info_len)
    IN  IF built.ret.tag = "panic"
        THEN [q |-> built.q, before |-> built.q, op |-> "none", arg |-> <<>>,
              ret |-> built.ret]
        ELSE cycled(built.q, AskFill(l.callback_info_len), l.cycles, checked)

\* The state run l begins in, warm being what its construction and rounds
\* gave.
Begin(l, warm) ==
    /\ header = warm.q.header
    /\ buffer = warm.q.buffer
    /\ callback_info_len = warm.q.callback_info_len
    /\ aborted = (warm.ret.tag = "panic")
    /\ last = IF warm.op = "none"
              THEN [op |-> l.ctor, arg |-> <<>>, ret |-> warm.ret]
              ELSE [op |-> warm.op, arg |-> warm.arg, ret |-> warm.ret]
    /\ prev = [header |-> warm.before.header, buffer |-> warm.before.buffer, live |-> <<>>]
    /\ live = <<>>
    /\ phase = "fill"
    /\ minted = <<>>
    /\ ticks = 0
    /\ wrapped = FALSE
    /\ run = l

Init ==
    \E l \in Runs : \E checked \in l.builds :
        /\ ~l.default => loaded_header(l.stored).tag = "Ok"
        /\ Begin(l, warmed(l, checked))

\* A call that took the queue to r.q and returned r.ret.
Call(op, arg, r) ==
    /\ header' = r.q.header
    /\ buffer' = r.q.buffer
    /\ aborted' = (r.ret.tag = "panic")
    /\ last' = [op |-> op, arg |-> arg, ret |-> r.ret]
    /\ prev' = [header |-> header, buffer |-> buffer, live |-> live]
    /\ ticks' = IF r.q.header.seq_num # header.seq_num THEN ticks + 1 ELSE ticks
    /\ ticks' <= MaxSeq
    /\ wrapped' = (wrapped \/ (r.q.header.seq_num # header.seq_num /\ header.seq_num = U64_MAX))
    /\ UNCHANGED <<callback_info_len, run>>

\* A call on &self that returned ret.
Query(op, ret) == Call(op, <<>>, [q |-> Queue, ret |-> ret])

\* gen_order_id(limit_price, side) answered r.
Minted(limit_price, side, r) ==
    /\ Call("gen_order_id", <<limit_price, side>>, r)
    /\ minted' = IF r.ret.tag = "id"
                 THEN Append(minted, [id |-> r.ret.id, limit_price |-> limit_price,
                                      side |-> side, seq_num |-> header.seq_num,
                                      wrapped |-> wrapped])
                 ELSE minted

GenOrderId ==
    /\ ~aborted
    /\ \E limit_price \in run.prices, side \in Side, checked \in run.builds :
        Minted(limit_price, side, gen_order_id(Queue, limit_price, side, checked))
    /\ UNCHANGED <<live, phase>>

Full ==
    /\ ~aborted
    /\ \E checked \in run.builds : Query("full", full(Queue, checked))
    /\ UNCHANGED <<live, phase, minted>>

\* push_back(event) answered r, and wrote at offset when it returned Ok.
Pushed(event, offset, r) ==
    /\ Call("push_back", event, r)
    /\ live' = IF r.ret.tag = "Ok"
               THEN Append(live, [event |-> event, at |-> ToNat(offset.value)])
               ELSE live
    /\ phase' = IF r.ret.tag # "Ok" THEN phase
                ELSE IF header.count = Zero \/ phase = "fill" THEN "fill"
                ELSE "off"

PushBack ==
    /\ ~aborted
    /\ \E event \in run.events, checked \in run.builds :
        Pushed(event, push_offset(Queue, checked), push_back(Queue, event, checked))
    /\ UNCHANGED minted

PeekFront ==
    /\ ~aborted
    /\ \E checked \in run.builds : Query("peek_front", peek_front(Queue, checked))
    /\ UNCHANGED <<live, phase, minted>>

\* pop_front() answered r.
Popped(r) ==
    /\ Call("pop_front", <<>>, r)
    /\ live' = IF r.ret.tag = "Ok" THEN Tail(live) ELSE live

PopFront ==
    /\ ~aborted
    /\ \E checked \in run.builds : Popped(pop_front(Queue, checked))
    /\ phase' = IF phase = "off" THEN "off" ELSE "drain"
    /\ UNCHANGED minted

\* pop_n(n) answered r.
PoppedN(n, r) ==
    /\ Call("pop_n", n, r)
    /\ live' = IF r.ret.tag = "Ok"
               THEN SubSeq(live, Min(Len(live), n) + 1, Len(live))
               ELSE live

PopN ==
    /\ ~aborted
    /\ \E n \in 0..MaxPopN, checked \in run.builds : PoppedN(n, pop_n(Queue, Word(n), checked))
    /\ phase' = "off"
    /\ UNCHANGED minted

WriteToRegister ==
    /\ ~aborted
    /\ \E object \in run.objects :
        Call("write_to_register", object, write_to_register(Queue, object))
    /\ UNCHANGED <<live, phase, minted>>

ClearRegister ==
    /\ ~aborted
    /\ Call("clear_register", <<>>, clear_register(Queue))
    /\ UNCHANGED <<live, phase, minted>>

ReadRegister ==
    /\ ~aborted
    /\ Query("read_register", read_register(Queue))
    /\ UNCHANGED <<live, phase, minted>>

Next ==
    \/ GenOrderId
    \/ Full
    \/ PushBack
    \/ PeekFront
    \/ PopFront
    \/ PopN
    \/ WriteToRegister
    \/ ClearRegister
    \/ ReadRegister

Spec == Init /\ [][Next]_vars

(***************************************************************************)
(* The claims.  Each is stated about the last call: Before is the queue    *)
(* when the call began, Queue the queue it left, last.ret what it          *)
(* returned.                                                               *)
(***************************************************************************)

\* The account of q holds the header and the register window, and event_size
\* is set (not 0): get_buf_len() and the number of slots are defined.
WellFormed(q) ==
    /\ q.header.event_size # Zero
    /\ get_buf_len(q, TRUE).tag = "Ok"

\* The number of event slots of a well-formed queue: get_buf_len() /
\* event_size.
capacity(q) == DivU(buf_len(q), q.header.event_size)

\* The run began at a well-formed queue with head = 0 and count = 0, and
\* seq_num has not passed u64::MAX.  The claims the code fails are stated
\* for these runs: what they show depends neither on the calls made before
\* the run is observed nor on how the build treats the overflow of seq_num.
FromDefault == run.cycles = 0 /\ ~wrapped /\ WellFormed(Queue)

EventQueueEmpty == [tag |-> "Err", error |-> "EventQueueEmpty"]

\* full() answers true, and full() answers false, on q.
IsFull(q) == \A checked \in run.builds : full(q, checked) = [tag |-> "Ok", value |-> TRUE]

NotFull(q) == \A checked \in run.builds : full(q, checked) = [tag |-> "Ok", value |-> FALSE]

\* The event_size bytes from offset lie in the event region of the buffer:
\* after the header and the register window, and inside the buffer.
InEventRegion(q, offset) ==
    /\ offset >= EVENT_QUEUE_HEADER_LEN + ToNat(as_u64(q.header.register_size))
    /\ offset + ToNat(q.header.event_size) <= Len(q.buffer)

\* The positions push_back writes at and peek_front and pop_front read at on
\* a well-formed queue, where no build's arithmetic overflows.
push_at(q) == ToNat(push_offset(q, FALSE).value)

front_at(q) == ToNat(front_offset(q, FALSE).value)

\* Pairs of ids, the first minted before the second, with no wraparound of
\* seq_num between the two.
MintedPairs ==
    { p \in (1..Len(minted)) \X (1..Len(minted)) :
        p[1] < p[2] /\ minted[p[1]].wrapped = minted[p[2]].wrapped }

\* C1: FIFO order.  From an empty queue, after n accepted push_back calls and
\* no pop, n consecutive pop_front calls return the pushed events in the order
\* they were pushed, and one more pop_front fails with EventQueueEmpty.
C1_FifoOrder ==
    (last.op = "pop_front" /\ phase = "drain" /\ FromDefault) =>
        IF prev.live = <<>>
        THEN last.ret = EventQueueEmpty
        ELSE last.ret = [tag |-> "Ok", event |-> Head(prev.live).event]

\* C2: capacity bound.  full() is true iff count = capacity; push_back never
\* succeeds at count = capacity; at count < capacity it returns Ok, without
\* panicking, and count grows by exactly 1.  (The push at seq_num = u64::MAX,
\* whose outcome depends on the build's overflow checks, is left out.)
C2_CapacityBound ==
    /\ (last.op = "full" /\ WellFormed(Before)) =>
          last.ret = [tag |-> "Ok", value |-> prev.header.count = capacity(Before)]
    /\ (last.op = "push_back" /\ prev.header.seq_num # U64_MAX /\ FromDefault) =>
          IF prev.header.count = capacity(Before)
          THEN last.ret.tag = "Err" /\ header.count = prev.header.count
          ELSE last.ret.tag = "Ok" /\ ToNat(header.count) = ToNat(prev.header.count) + 1

\* C3: the window push_back serializes into lies in the event region (it
\* meets neither the header nor the register window, and ends inside the
\* buffer), so a push_back leaves an initialized register as it was.
C3_WritesStayInSlots ==
    (last.op = "push_back" /\ NotFull(Before) /\ FromDefault) =>
        /\ InEventRegion(Before, push_at(Before))
        /\ LET r == read_register(Before)
           IN  IF r.tag = "Ok"
               THEN (r.register.tag = "Initialized" => read_register(Queue) = r)
               ELSE TRUE

\* C4: 0 <= count <= capacity in every reachable state; count does not
\* underflow on pop_front or pop_n.  (On a queue that is not well-formed the
\* capacity is not defined, and count stays 0.)
C4_CountInvariant ==
    /\ Le(Zero, header.count)
    /\ IF WellFormed(Queue) THEN Le(header.count, capacity(Queue))
       ELSE header.count = Zero

\* C4's case: pop_n asked for more entries than a non-empty queue held.
C4_Witness ==
    /\ last.op = "pop_n"
    /\ last.ret.tag = "Ok"
    /\ prev.header.count # Zero
    /\ Lt(prev.header.count, Word(last.arg))

\* C5 as claimed: head < capacity (the number of event slots) in every
\* reachable state.
C5_HeadBelowCapacity == FromDefault => Lt(header.head, capacity(Queue))

\* C5 as amended: head < get_buf_len() (the byte length of the event region)
\* in every reachable state.
C5_HeadInvariant == Lt(header.head, buf_len(Queue))

\* C5's case: a pop took head past the end of the event region and back to
\* its start.
C5_Witness ==
    /\ last.op \in {"pop_front", "pop_n"}
    /\ last.ret.tag = "Ok"
    /\ Lt(header.head, prev.header.head)

\* C6: back-pressure.  push_back on a full queue returns Err with exactly the
\* event it was given and leaves head, count, seq_num and the buffer unchanged.
C6_BackPressure ==
    (last.op = "push_back" /\ IsFull(Before)) =>
        /\ last.ret = [tag |-> "Err", event |-> last.arg]
        /\ header = prev.header
        /\ buffer = prev.buffer

\* C6's case: a push_back was refused by a full queue that holds events.
C6_Witness ==
    /\ last.op = "push_back"
    /\ IsFull(Before)
    /\ prev.header.count # Zero
    /\ last.ret.tag = "Err"

\* C7: pop_front on an empty queue returns EventQueueEmpty as a value and
\* leaves head, count, seq_num and the buffer unchanged; pop_front returns
\* EventQueueEmpty only when count = 0.
C7_PopEmpty ==
    last.op = "pop_front" =>
        /\ prev.header.count = Zero =>
              /\ last.ret = EventQueueEmpty
              /\ header = prev.header
              /\ buffer = prev.buffer
        /\ last.ret.tag = "Err" => prev.header.count = Zero

\* C7's case: pop_front found a queue empty that had been pushed to and
\* drained.
C7_Witness ==
    /\ last.op = "pop_front"
    /\ prev.header.count = Zero
    /\ prev.header.head # Zero
    /\ last.ret = EventQueueEmpty

\* C8: pop_n(k) at count = c never fails, leaves count = max(0, c - k), head
\* advanced by min(c, k) modulo get_buf_len(), seq_num and the buffer
\* unchanged, and the front of the queue at the event that was at position
\* min(c, k): the window the next pop_front reads is the window that event
\* was written to.
C8_PopN ==
    (last.op = "pop_n" /\ FromDefault) =>
        LET c == ToNat(prev.header.count)
            k == last.arg
            m == Min(c, k)
        IN  /\ last.ret.tag = "Ok"
            /\ ToNat(header.count) = (IF c - k > 0 THEN c - k ELSE 0)
            /\ ToNat(header.head) = (ToNat(prev.header.head) + m) % ToNat(buf_len(Before))
            /\ header.seq_num = prev.header.seq_num
            /\ buffer = prev.buffer
            /\ header.count # Zero => front_at(Queue) = prev.live[m + 1].at

\* C9: price-time ordering of order ids.  For id1 minted before id2 with no
\* wraparound between them: two bids at one price have id1 > id2, two asks at
\* one price have id1 < id2, and at different prices the id of the higher
\* price is the greater, whatever the sides and the mint order.
C9_PriceTimeOrder ==
    \A p \in MintedPairs :
        LET a == minted[p[1]]
            b == minted[p[2]]
        IN  /\ (a.limit_price = b.limit_price /\ a.side = "Bid" /\ b.side = "Bid")
                  => LtU(b.id, a.id)
            /\ (a.limit_price = b.limit_price /\ a.side = "Ask" /\ b.side = "Ask")
                  => LtU(a.id, b.id)
            /\ LtU(a.limit_price, b.limit_price) => LtU(a.id, b.id)
            /\ LtU(b.limit_price, a.limit_price) => LtU(b.id, a.id)

\* C9's case: two bids were minted at one price with a push_back between
\* them.
C9_Witness ==
    \E p \in MintedPairs :
        /\ minted[p[1]].limit_price = minted[p[2]].limit_price
        /\ minted[p[1]].side = "Bid" /\ minted[p[2]].side = "Bid"
        /\ minted[p[2]].seq_num # WrappingInc(minted[p[1]].seq_num)
        /\ last.op = "gen_order_id"

\* C10 as claimed: an id minted later never equals an id minted earlier at
\* the same price (no wraparound between them), whatever the two sides.
C10_UniqueWhateverSides ==
    \A p \in MintedPairs :
        minted[p[1]].limit_price = minted[p[2]].limit_price
            => minted[p[1]].id # minted[p[2]].id

\* C10 as amended: an id minted later never equals an id minted earlier at
\* the same price (no wraparound between them) when the two calls are on the
\* same side, or on different sides with the later call's sequence number not
\* the bitwise complement of the earlier call's.
C10_UniqueIds ==
    \A p \in MintedPairs :
        LET a == minted[p[1]]
            b == minted[p[2]]
        IN  (/\ a.limit_price = b.limit_price
             /\ (a.side = b.side \/ b.seq_num # Not64(a.seq_num)))
                => a.id # b.id

\* C10's case: a bid and an ask minted at one price with a push_back between
\* them.
C10_Witness ==
    \E p \in MintedPairs :
        /\ minted[p[1]].limit_price = minted[p[2]].limit_price
        /\ minted[p[1]].side # minted[p[2]].side
        /\ minted[p[2]].seq_num # WrappingInc(minted[p[1]].seq_num)
        /\ last.op = "gen_order_id"

Uninitialized == [tag |-> "Ok", register |-> [tag |-> "Uninitialized"]]

Initialized(value) == [tag |-> "Ok", register |-> [tag |-> "Initialized", value |-> value]]

\* C11: register lifecycle.  Right after construction through either
\* constructor, over any buffer content, read_register yields Uninitialized;
\* after write_to_register(v) it yields Initialized(v) whatever the register
\* held; after clear_register it yields Uninitialized again.
C11_ClearedByEitherConstructor ==
    /\ (last.op \in {"new", "new_safe"} /\ last.ret.tag = "Ok" /\ run.cycles = 0) =>
          read_register(Queue) = Uninitialized
    /\ last.op = "write_to_register" => read_register(Queue) = Initialized(last.arg)
    /\ last.op = "clear_register" => read_register(Queue) = Uninitialized

\* C12: codec round trip.  For every Fill and Out event whose callback
\* strings have length callback_info_len, the serialized record begins with
\* the discriminant byte (0 for Fill, 1 for Out) and deserialize gives the
\* event back.  Stated of the event handed to the last push_back.
C12_CodecRoundTrip ==
    last.op = "push_back" =>
        LET event == last.arg
            bytes == serialize(event)
        IN  /\ bytes[1] = (IF event.kind = "Fill" THEN 0 ELSE 1)
            /\ deserialize(bytes, callback_info_len) = [tag |-> "ok", event |-> event]

\* C13: peek_front is read-only and agrees with pop_front.  It returns None
\* iff count = 0; otherwise it returns the oldest event not yet popped, leaves
\* head, count, seq_num and the buffer unchanged, and the pop_front that
\* follows returns that same event and takes exactly 1 from count.
C13_PeekFront ==
    (last.op = "peek_front" /\ FromDefault) =>
        /\ (last.ret.tag = "None") <=> (prev.header.count = Zero)
        /\ prev.header.count # Zero =>
              /\ last.ret = [tag |-> "Some", event |-> Head(prev.live).event]
              /\ header = prev.header
              /\ buffer = prev.buffer
              /\ \A checked \in run.builds :
                    /\ pop_front(Queue, checked).ret
                          = [tag |-> "Ok", event |-> Head(prev.live).event]
                    /\ ToNat(pop_front(Queue, checked).q.header.count)
                          = ToNat(header.count) - 1

\* The last call is one that advances seq_num: a gen_order_id, or a push_back
\* that returned Ok.
Advancing ==
    \/ last.op = "gen_order_id"
    \/ last.op = "push_back" /\ last.ret.tag = "Ok"

\* C14: seq_num never decreases before it overflows.  It grows by exactly 1
\* on each gen_order_id call and on each push_back that succeeds, and a
\* rejected push_back, pop_front, pop_n, peek_front, full and the register
\* operations leave it unchanged.
C14_SeqNumMonotonic ==
    IF Advancing
    THEN prev.header.seq_num # U64_MAX =>
            /\ header.seq_num = WrappingInc(prev.header.seq_num)
            /\ LtU(prev.header.seq_num, header.seq_num)
    ELSE header.seq_num = prev.header.seq_num

\* C14's case: a push_back refused by a full queue after ids were minted and
\* events pushed.
C14_Witness ==
    /\ last.op = "push_back"
    /\ last.ret.tag = "Err"
    /\ Len(minted) > 0
    /\ ticks > Len(minted)
    /\ header.seq_num = prev.header.seq_num

\* C15: the ring buffer refines a bounded FIFO.  Under any interleaving of
\* push_back, pop_front and pop_n, the queue holds the accepted events not yet
\* popped (live, kept as the FIFO would keep them), and pop_front returns what
\* the FIFO returns: its oldest event, or EventQueueEmpty when it has none.
C15_FifoRefinement ==
    (~aborted /\ FromDefault) =>
        /\ header.count = Word(Len(live))
        /\ last.op = "pop_front" =>
              IF prev.live = <<>>
              THEN last.ret = EventQueueEmpty /\ live = <<>>
              ELSE /\ last.ret = [tag |-> "Ok", event |-> Head(prev.live).event]
                   /\ live = Tail(prev.live)

\* The event_size bytes from offset a and the event_size bytes from offset b
\* have no byte in common.
Disjoint(q, a, b) ==
    a + ToNat(q.header.event_size) <= b \/ b + ToNat(q.header.event_size) <= a

\* C16: a push_back that succeeds never overwrites a live event.  The window
\* it writes is disjoint from the window of each event still in the queue,
\* and in every reachable state the windows of the live events are pairwise
\* disjoint.
C16_NoOverwrite ==
    FromDefault =>
        /\ (last.op = "push_back" /\ last.ret.tag = "Ok") =>
              \A i \in 1..Len(prev.live) :
                  Disjoint(Before, prev.live[i].at, push_at(Before))
        /\ \A i, j \in 1..Len(live) :
              i < j => Disjoint(Queue, live[i].at, live[j].at)

\* The low and the high 64 bits of a 128-bit value.
Low64(x) == SubSeq(x, 1, 8)

High64(x) == SubSeq(x, 9, 16)

\* C17: order-id encoding.  gen_order_id(limit_price, side) called at
\* seq_num = s returns the 128-bit value whose high 64 bits are limit_price
\* and whose low 64 bits are 2^64 - 1 - s for a Bid and s for an Ask, and it
\* leaves head, count and the buffer unchanged.
C17_OrderIdEncoding ==
    last.op = "gen_order_id" =>
        LET limit_price == last.arg[1]
            side == last.arg[2]
            s == prev.header.seq_num
        IN  /\ last.ret.tag = "id"
            /\ Len(last.ret.id) = 16
            /\ High64(last.ret.id) = limit_price
            /\ Low64(last.ret.id) =
                  (IF side = "Bid" THEN [i \in 1..8 |-> 255 - s[i]] ELSE s)
            /\ header.head = prev.header.head
            /\ header.count = prev.header.count
            /\ buffer = prev.buffer

\* The last call is one that is to advance seq_num, made at seq_num =
\* 2^64 - 1: a gen_order_id, or a push_back on a queue that is not full.
AtOverflow ==
    /\ prev.header.seq_num = U64_MAX
    /\ \/ last.op = "gen_order_id"
       \/ last.op = "push_back" /\ NotFull(Before)

\* C18: overflow of seq_num.  At seq_num = 2^64 - 1, gen_order_id and a
\* non-full push_back complete normally and leave seq_num = 0, with no error
\* and no abort.
C18_WrapsSilently ==
    AtOverflow =>
        /\ last.ret.tag \in {"id", "Ok"}
        /\ header.seq_num = Zero64

\* C19: decode errors are distinct and limited to corruption.  peek_front and
\* pop_front on a non-empty queue fail only when the first byte of the front
\* slot, the discriminant, is neither 0 (Fill) nor 1 (Out); the failure is
\* neither EventQueueEmpty nor the answer of a full queue; and a front slot
\* that push_back wrote the oldest live event to never fails to decode.
C19_DecodeErrors ==
    (last.op \in {"peek_front", "pop_front"} /\ prev.header.count # Zero /\ FromDefault) =>
        LET failed == last.ret.tag \notin {"Some", "Ok"}
            discriminant == prev.buffer[front_at(Before) + 1]
        IN  /\ failed => discriminant \notin {0, 1}
            /\ failed => last.ret.tag \notin {"Err", "None"}
            /\ Head(prev.live).at = front_at(Before) => ~failed

\* The event-slot region of the buffer: every byte after the register window.
EventSlots(q) ==
    Slice(q.buffer, EVENT_QUEUE_HEADER_LEN + ToNat(as_u64(q.header.register_size)), Len(q.buffer))

\* What the pop_front calls that drain q return, in order, up to the first
\* that does not return an event.
RECURSIVE Drained(_, _)
Drained(q, checked) ==
    LET r == pop_front(q, checked)
    IN  IF r.ret.tag = "Ok" THEN <<r.ret>> \o Drained(r.q, checked) ELSE <<r.ret>>

\* C20: the register operations do not touch the event log.
\* write_to_register, clear_register and read_register leave head, count,
\* seq_num and every byte of the event-slot region unchanged, so the pop_front
\* calls that follow return what they would have returned without them.
C20_RegisterFrame ==
    last.op \in {"write_to_register", "clear_register", "read_register"} =>
        /\ header.head = prev.header.head
        /\ header.count = prev.header.count
        /\ header.seq_num = prev.header.seq_num
        /\ EventSlots(Queue) = EventSlots(Before)
        /\ \A checked \in run.builds : Drained(Queue, checked) = Drained(Before, checked)

\* C20's case: write_to_register changed the buffer of a queue that holds
\* events, one of them written over the register window.
C20_Witness ==
    /\ last.op = "write_to_register"
    /\ last.ret.tag = "Ok"
    /\ buffer # prev.buffer
    /\ header.count # Zero
    /\ \E i \in 1..Len(live) :
          live[i].at < EVENT_QUEUE_HEADER_LEN + ToNat(as_u64(header.register_size))

====
